---- MODULE Spec2Model ----
(***************************************************************************)
(* A model of scanned_images/process.py: the page reordering, the staged   *)
(* rename, the document assembly and the OCR pipeline with its retry loop, *)
(* run by main() over one data directory.                                  *)
(*                                                                         *)
(* Strings are sequences of one-character strings, so that strip, lower,   *)
(* endswith, splitext, the :03d format and the lexicographic sort are      *)
(* computed as Python computes them.  A file is its name and its content;  *)
(* a file's content is identified by the name it had when the run began.   *)
(* The environment is fixed for a run; the model draws each variable at    *)
(* the place where the code reads it.                                      *)
(***************************************************************************)
EXTENDS Integers, Sequences, FiniteSets, TLC

\* ------------------------------------------------------------------ bounds

\* The most image files the data directory holds when a run begins.
MaxFiles == 3

\* The longest list handed to interleave_reorder in SpecReorder.
MaxReorderLen == 6

\* The longest list of file sizes, and the largest file size in bytes,
\* handed to estimate_tokens in SpecEstimate.
MaxEstLen == 2
MaxFileSize == 4

\* ---------------------------------------------------------------- strings

\* The characters the model's strings use, in ASCII order.
Chars ==
  << " ", ".", "0", "1", "2", "3", "4", "5", "6", "7", "8", "9",
     "C", "G", "J", "O", "P", "R", "Y", "_",
     "c", "d", "e", "f", "g", "j", "k", "n", "o", "p", "r", "s", "t", "x", "y" >>

Ord(c) == CHOOSE k \in DOMAIN Chars : Chars[k] = c

\* str.lower() on one character.
LowerChar(c) ==
  CASE c = "C" -> "c" [] c = "G" -> "g" [] c = "J" -> "j" [] c = "O" -> "o"
    [] c = "P" -> "p" [] c = "R" -> "r" [] c = "Y" -> "y" [] OTHER -> c

Lower(s) == [k \in DOMAIN s |-> LowerChar(s[k])]

RECURSIVE LStrip(_)
LStrip(s) == IF s # << >> /\ Head(s) = " " THEN LStrip(Tail(s)) ELSE s

RECURSIVE RStrip(_)
RStrip(s) ==
  IF s # << >> /\ s[Len(s)] = " " THEN RStrip(SubSeq(s, 1, Len(s) - 1)) ELSE s

\* str.strip()
Strip(s) == RStrip(LStrip(s))

\* str.endswith(suffix)
EndsWith(s, suf) ==
  /\ Len(suf) <= Len(s)
  /\ SubSeq(s, Len(s) - Len(suf) + 1, Len(s)) = suf

\* "429" in str(e)
Contains(s, sub) ==
  \E k \in 1..(Len(s) - Len(sub) + 1) : SubSeq(s, k, k + Len(sub) - 1) = sub

\* Python's order on str: lexicographic by code point.
RECURSIVE StrLess(_, _)
StrLess(a, b) ==
  IF a = << >> THEN b # << >>
  ELSE IF b = << >> THEN FALSE
  ELSE IF Head(a) = Head(b) THEN StrLess(Tail(a), Tail(b))
  ELSE Ord(Head(a)) < Ord(Head(b))

\* os.path.splitext(f): the extension starts at the last dot, unless only
\* dots precede it (a leading-dot name has no extension).
DotIndex(f) ==
  IF \E k \in DOMAIN f : f[k] = "."
  THEN CHOOSE k \in DOMAIN f : f[k] = "." /\ \A m \in (k + 1)..Len(f) : f[m] # "."
  ELSE 0

splitext(f) ==
  LET d == DotIndex(f) IN
  IF d > 0 /\ \E k \in 1..(d - 1) : f[k] # "."
  THEN << SubSeq(f, 1, d - 1), SubSeq(f, d, Len(f)) >>
  ELSE << f, << >> >>

\* The decimal digits of a natural number.
DigitChar(d) == Chars[Ord("0") + d]

RECURSIVE Digits(_)
Digits(n) == IF n < 10 THEN << DigitChar(n) >> ELSE Digits(n \div 10) \o << DigitChar(n % 10) >>

RECURSIVE ZeroPad(_, _)
ZeroPad(s, w) == IF Len(s) >= w THEN s ELSE ZeroPad(<< "0" >> \o s, w)

\* f"{i:03d}"
Format03d(n) == ZeroPad(Digits(n), 3)

\* ------------------------------------------------------------- file maps

\* A directory is a function from the names in it to the files' contents.
Put(d, n, c) == [x \in (DOMAIN d) \cup {n} |-> IF x = n THEN c ELSE d[x]]
Del(d, n) == [x \in (DOMAIN d) \ {n} |-> d[x]]
EmptyDir == [x \in {} |-> << >>]

\* ------------------------------------------------------- module constants

IMAGE_EXTENSIONS ==
  { << ".", "j", "p", "g" >>, << ".", "j", "p", "e", "g" >>, << ".", "p", "n", "g" >> }

\* ------------------------------------------------------------- get_images

\* list.sort(): the names of a set in increasing order.
RECURSIVE SortedSeq(_)
SortedSeq(S) ==
  IF S = {} THEN << >>
  ELSE LET m == CHOOSE x \in S : \A y \in S \ {x} : StrLess(x, y)
       IN << m >> \o SortedSeq(S \ {m})

IsImage(f) == \E e \in IMAGE_EXTENSIONS : EndsWith(Lower(f), e)

get_images(d) == SortedSeq({f \in DOMAIN d : IsImage(f)})

\* ------------------------------------------------------ interleave_reorder

Reversed(s) == [k \in 1..Len(s) |-> s[Len(s) + 1 - k]]

RECURSIVE Interleave(_, _, _, _)
Interleave(fronts, backs, k, mid) ==
  IF k > mid THEN << >>
  ELSE << fronts[k] >>
       \o (IF k <= Len(backs) THEN << backs[k] >> ELSE << >>)
       \o Interleave(fronts, backs, k + 1, mid)

interleave_reorder_dropback(files) ==
  LET n == Len(files)
      mid == n \div 2
      fronts == SubSeq(files, 1, mid)
      backs == Reversed(SubSeq(files, mid + 1, n))
  IN Interleave(fronts, backs, 1, mid)

interleave_reorder_noreverse(files) ==
  LET n == Len(files)
      mid == (n + 1) \div 2
      fronts == SubSeq(files, 1, mid)
      backs == SubSeq(files, mid + 1, n)
  IN Interleave(fronts, backs, 1, mid)

interleave_reorder(files) ==
  LET n == Len(files)
      mid == (n + 1) \div 2
      fronts == SubSeq(files, 1, mid)
      backs == Reversed(SubSeq(files, mid + 1, n))
  IN Interleave(fronts, backs, 1, mid)

\* ------------------------------------------------------------ environment

\* An environment variable is set to a value or unset.
Unset == [set |-> FALSE, val |-> << >>]
SetTo(v) == [set |-> TRUE, val |-> v]

\* os.environ.get(name, default)
EnvGet(e, default) == IF e.set THEN e.val ELSE default

FilenameEnv == { Unset, SetTo(<< >>), SetTo(<< " " >>), SetTo(<< " ", "d" >>) }
ModeEnv == { Unset, SetTo(<< " ", "O", "C", "R" >>), SetTo(<< "p", "d", "f" >>) }
KeyEnv == { Unset, SetTo(<< >>), SetTo(<< " " >>), SetTo(<< " ", "k" >>) }
StdinLines == { << >>, << "Y" >>, << " ", "y", "e", "s" >>, << "n" >> }

STR_full == << "f", "u", "l", "l" >>
STR_ocr == << "o", "c", "r" >>
STR_y == << "y" >>
STR_yes == << "y", "e", "s" >>
STR_429 == << "4", "2", "9" >>

\* --------------------------------------------------------- the data folder

HiddenPng == << ".", "p", "n", "g" >>
D1 == << "d", "_", "0", "0", "1", ".", "j", "p", "g" >>
D2 == << "d", "_", "0", "0", "2", ".", "j", "p", "g" >>
Notes == << "n", ".", "t", "x", "t" >>
S1 == << "s", "1", ".", "j", "p", "g" >>
S2 == << "s", "2", ".", "J", "P", "G" >>
Junk == << "j", "u", "n", "k" >>

ImageUniverse == { HiddenPng, D1, D2, S1, S2 }
NameUniverse == ImageUniverse \cup { Notes }

\* A file's content is named after the file that held it when the run began.
ContentOf(n) == << "c", ":" >> \o n
StaleContent == << "s", "t", "a", "l", "e" >>

DirOf(S) == [n \in S |-> ContentOf(n)]

\* What __tmp_rename may hold when a run begins: it does not exist, or an
\* earlier failed run left it behind with a file in it.
TmpLeftovers == { EmptyDir, [n \in {Junk} |-> StaleContent], [n \in {D1} |-> StaleContent] }

\* ------------------------------------------------------------- exceptions

NoErr == [kind |-> "none", rate_limit |-> FALSE, msg |-> << >>]
OSError(what) == [kind |-> what, rate_limit |-> FALSE, msg |-> << >>]
ApiError(rl, msg) == [kind |-> "api", rate_limit |-> rl, msg |-> msg]

\* What client.chat.completions.create can raise: the service's rate-limit
\* failure, whose message carries the status code 429; another failure
\* whose message does not hold "429"; another failure whose message does
\* (a request id, a port, a byte count).
RateLimitError == ApiError(TRUE, << "4", "2", "9" >>)
ServerError == ApiError(FALSE, << "5", "0", "0" >>)
ServerError429 == ApiError(FALSE, << "5", "0", "0", " ", "r", "4", "2", "9", "1" >>)
ApiErrors == { RateLimitError, ServerError, ServerError429 }

\* --------------------------------------------------------------- artifact

TitleChunk(filename) == [kind |-> "title", page |-> 0, text |-> filename]
DelimChunk == [kind |-> "delim", page |-> 0, text |-> << >>]
PageChunk(p, text) == [kind |-> "page", page |-> p, text |-> text]
StaleChunk == [kind |-> "stale", page |-> 0, text |-> << >>]

\* The text the service extracts from an image is a function of its bytes.
OcrText(content) == << "t", ":" >> \o content

\* ----------------------------------------------------------------- state

VARIABLES
  pc,              \* where main() stands
  env_filename, filename, env_mode, mode,
  dir, tmpExists, tmp, pdf,
  artifactExists, artifact,
  images, ordered, new_paths, renamed, finalMoves,
  env_key, api_key, tty, stdin_line, answer, ocr_files, ocr,
  i, attempt, netCalls, callPage, pageCalls, sleeps, pageRateLimited, lastEx,
  succeeded, netSleeps,
  err, exitCode, doneLogged,
  dir0, tmp0, tmpExists0, artifact0, artifactExists0,
  sizesA, sizesB, estA, estB   \* estimate_tokens on its own: inputs and results

envVars == << env_filename, filename, env_mode, mode >>
fsVars == << dir, tmpExists, tmp >>
artVars == << artifactExists, artifact >>
renVars == << images, ordered, new_paths, renamed, finalMoves >>
ocrVars == << env_key, api_key, tty, stdin_line, answer, ocr_files, ocr >>
loopVars == << i, attempt, netCalls, callPage, pageCalls, sleeps, pageRateLimited,
               lastEx, succeeded, netSleeps >>
endVars == << err, exitCode, doneLogged >>
initVars == << dir0, tmp0, tmpExists0, artifact0, artifactExists0 >>
estVars == << sizesA, sizesB, estA, estB >>

vars == << pc, envVars, fsVars, pdf, artVars, renVars, ocrVars, loopVars, endVars,
           initVars, estVars >>

NoPdf == [exists |-> FALSE, pages |-> << >>]

\* estimate_tokens on its own has not been given anything.
InitEst == sizesA = << >> /\ sizesB = << >> /\ estA = 0 /\ estB = 0

\* Everything but the folder, as it is before main() has done anything.
InitRest ==
  /\ env_filename = Unset /\ filename = << >>
  /\ env_mode = Unset /\ mode = << >>
  /\ pdf = NoPdf
  /\ images = << >> /\ ordered = << >> /\ new_paths = << >> /\ renamed = << >>
  /\ finalMoves = 0
  /\ env_key = Unset /\ api_key = << >> /\ tty = FALSE /\ stdin_line = << >>
  /\ answer = << >> /\ ocr_files = << >> /\ ocr = "not_run"
  /\ i = 0 /\ attempt = 0 /\ netCalls = 0 /\ callPage = 0 /\ pageCalls = 0
  /\ sleeps = << >> /\ pageRateLimited = 0 /\ lastEx = NoErr
  /\ succeeded = {} /\ netSleeps = 0
  /\ err = NoErr /\ exitCode = -1 /\ doneLogged = FALSE

Init ==
  /\ pc = "main"
  /\ \E S \in SUBSET ImageUniverse :
       /\ Cardinality(S) <= MaxFiles
       /\ dir = DirOf(S \cup {Notes})
  /\ \E t \in TmpLeftovers :
       /\ tmp = t
       /\ tmpExists = (t # EmptyDir)
  /\ \E a \in { << >>, << StaleChunk >> } :
       /\ artifact = a
       /\ artifactExists = (a # << >>)
  /\ dir0 = dir /\ tmp0 = tmp /\ tmpExists0 = tmpExists
  /\ artifact0 = artifact /\ artifactExists0 = artifactExists
  /\ InitRest
  /\ InitEst

\* ------------------------------------------------------------------ main

\* An uncaught exception, or sys.exit(1): the process ends with status 1.
Abort(e) ==
  /\ pc' = "exit"
  /\ err' = e
  /\ exitCode' = 1
  /\ doneLogged' = FALSE

FilenameMissingNoStrip(e) == EnvGet(e, << >>) = << >>

\* not os.environ.get("FILENAME", "").strip()
FilenameMissing(e) == Strip(EnvGet(e, << >>)) = << >>

\* os.environ.get("MODE", "full").strip().lower()
ModeOf(e) == Lower(Strip(EnvGet(e, STR_full)))

MainNoFilename ==
  /\ pc = "main"
  /\ \E e \in FilenameEnv :
       /\ FilenameMissing(e)
       /\ env_filename' = e
       /\ filename' = Strip(EnvGet(e, << >>))
  /\ Abort(OSError("config"))
  /\ UNCHANGED << env_mode, mode, fsVars, pdf, artVars, renVars, ocrVars, loopVars,
                  initVars, estVars >>

MainNoImages ==
  /\ pc = "main"
  /\ \E e \in FilenameEnv :
       /\ ~FilenameMissing(e)
       /\ env_filename' = e
       /\ filename' = Strip(EnvGet(e, << >>))
  /\ \E m \in ModeEnv :
       /\ env_mode' = m
       /\ mode' = ModeOf(m)
  /\ get_images(dir) = << >>
  /\ Abort(OSError("noinput"))
  /\ UNCHANGED << fsVars, pdf, artVars, renVars, ocrVars, loopVars, initVars, estVars >>

\* mode == "ocr": run_ocr(images, filename)
MainOcrMode ==
  /\ pc = "main"
  /\ \E e \in FilenameEnv :
       /\ ~FilenameMissing(e)
       /\ env_filename' = e
       /\ filename' = Strip(EnvGet(e, << >>))
  /\ \E m \in ModeEnv :
       /\ ModeOf(m) = STR_ocr
       /\ env_mode' = m
       /\ mode' = ModeOf(m)
  /\ get_images(dir) # << >>
  /\ images' = get_images(dir)
  /\ ocr_files' = get_images(dir)
  /\ pc' = "ocr"
  /\ UNCHANGED << fsVars, pdf, artVars, ordered, new_paths, renamed, finalMoves,
                  env_key, api_key, tty, stdin_line, answer, ocr,
                  loopVars, endVars, initVars, estVars >>

MainFullModeNoReorder ==
  /\ pc = "main"
  /\ \E e \in FilenameEnv :
       /\ ~FilenameMissing(e)
       /\ env_filename' = e
       /\ filename' = Strip(EnvGet(e, << >>))
  /\ \E m \in ModeEnv :
       /\ ModeOf(m) # STR_ocr
       /\ env_mode' = m
       /\ mode' = ModeOf(m)
  /\ get_images(dir) # << >>
  /\ images' = get_images(dir)
  /\ ordered' = get_images(dir)
  /\ tmpExists' = TRUE
  /\ new_paths' = << >>
  /\ pc' = "stage"
  /\ UNCHANGED << dir, tmp, pdf, artVars, renamed, finalMoves, ocrVars, loopVars,
                  endVars, initVars, estVars >>

\* any other mode: interleave_reorder, then rename_files up to its makedirs
MainFullMode ==
  /\ pc = "main"
  /\ \E e \in FilenameEnv :
       /\ ~FilenameMissing(e)
       /\ env_filename' = e
       /\ filename' = Strip(EnvGet(e, << >>))
  /\ \E m \in ModeEnv :
       /\ ModeOf(m) # STR_ocr
       /\ env_mode' = m
       /\ mode' = ModeOf(m)
  /\ get_images(dir) # << >>
  /\ images' = get_images(dir)
  /\ ordered' = interleave_reorder(get_images(dir))
  /\ tmpExists' = TRUE
  /\ new_paths' = << >>
  /\ pc' = "stage"
  /\ UNCHANGED << dir, tmp, pdf, artVars, renamed, finalMoves, ocrVars, loopVars,
                  endVars, initVars, estVars >>

\* ---------------------------------------------------------- rename_files

NewNameFromZero(base, idx, f) ==
  base \o << "_" >> \o Format03d(idx - 1) \o splitext(f)[2]

NewNameLowerExt(base, idx, f) ==
  base \o << "_" >> \o Format03d(idx) \o Lower(splitext(f)[2])

\* f"{filename}_{i:03d}{ext}" with ext = os.path.splitext(f)[1]
NewName(base, idx, f) == base \o << "_" >> \o Format03d(idx) \o splitext(f)[2]

\* shutil.move(src, tmp) of the file at position Len(new_paths) + 1
StageMove ==
  /\ pc = "stage"
  /\ LET idx == Len(new_paths) + 1
         f == ordered[idx]
         new_name == NewName(filename, idx, f)
     IN /\ tmp' = Put(tmp, new_name, dir[f])
        /\ dir' = Del(dir, f)
        /\ new_paths' = Append(new_paths, new_name)
        /\ pc' = IF idx = Len(ordered) THEN "final" ELSE "stage"
  /\ UNCHANGED << envVars, tmpExists, pdf, artVars, images, ordered, renamed,
                  finalMoves, ocrVars, loopVars, endVars, initVars, estVars >>

StageMoveFailCleanup ==
  /\ pc = "stage"
  /\ Abort(OSError("stage_move"))
  /\ dir' = [n \in (DOMAIN dir) \cup (DOMAIN tmp) |->
               IF n \in DOMAIN tmp THEN tmp[n] ELSE dir[n]]
  /\ tmp' = EmptyDir
  /\ tmpExists' = FALSE
  /\ UNCHANGED << envVars, pdf, artVars, renVars, ocrVars, loopVars, initVars, estVars >>

\* shutil.move(src, tmp) raises: the exception leaves rename_files and main
StageMoveFail ==
  /\ pc = "stage"
  /\ Abort(OSError("stage_move"))
  /\ UNCHANGED << envVars, fsVars, pdf, artVars, renVars, ocrVars, loopVars,
                  initVars, estVars >>

\* shutil.move(tmp/name, DATA_DIR/name) of new_paths[finalMoves + 1]
FinalMove ==
  /\ pc = "final"
  /\ LET name == new_paths[finalMoves + 1]
     IN /\ dir' = Put(dir, name, tmp[name])
        /\ tmp' = Del(tmp, name)
        /\ finalMoves' = finalMoves + 1
        /\ pc' = IF finalMoves + 1 = Len(new_paths) THEN "rmdir" ELSE "final"
  /\ UNCHANGED << envVars, tmpExists, pdf, artVars, images, ordered, new_paths,
                  renamed, ocrVars, loopVars, endVars, initVars, estVars >>

FinalMoveFail ==
  /\ pc = "final"
  /\ Abort(OSError("final_move"))
  /\ UNCHANGED << envVars, fsVars, pdf, artVars, renVars, ocrVars, loopVars,
                  initVars, estVars >>

\* os.rmdir(tmp_dir) on an empty directory, the log line and the return
RenameReturn ==
  /\ pc = "rmdir"
  /\ DOMAIN tmp = {}
  /\ tmpExists' = FALSE
  /\ renamed' = new_paths
  /\ pc' = "pdf"
  /\ UNCHANGED << envVars, dir, tmp, pdf, artVars, images, ordered, new_paths,
                  finalMoves, ocrVars, loopVars, endVars, initVars, estVars >>

\* os.rmdir(tmp_dir) raises: the directory still holds a leftover file
RmdirFail ==
  /\ pc = "rmdir"
  /\ DOMAIN tmp # {}
  /\ Abort(OSError("rmdir"))
  /\ UNCHANGED << envVars, fsVars, pdf, artVars, renVars, ocrVars, loopVars,
                  initVars, estVars >>

\* ------------------------------------------------------------- create_pdf

\* open(pdf_path, "wb"), img2pdf.convert of the renamed list, the write
CreatePdf ==
  /\ pc = "pdf"
  /\ pdf' = [exists |-> TRUE, pages |-> [k \in 1..Len(renamed) |-> dir[renamed[k]]]]
  /\ ocr_files' = renamed
  /\ pc' = "ocr"
  /\ UNCHANGED << envVars, fsVars, artVars, renVars, env_key, api_key, tty,
                  stdin_line, answer, ocr, loopVars, endVars, initVars, estVars >>

\* img2pdf.convert raises after open(pdf_path, "wb") has truncated the file
CreatePdfFail ==
  /\ pc = "pdf"
  /\ pdf' = [exists |-> TRUE, pages |-> << >>]
  /\ Abort(OSError("img2pdf"))
  /\ UNCHANGED << envVars, fsVars, artVars, renVars, ocrVars, loopVars, initVars, estVars >>

\* ---------------------------------------------------------------- run_ocr

\* The retry loop's range(5).
MaxAttempts == 5

KeyMissingNoStrip(e) == EnvGet(e, << >>) = << >>

\* not os.environ.get("OPENAI_API_KEY", "").strip()
KeyMissing(e) == Strip(EnvGet(e, << >>)) = << >>

\* input().strip().lower()
AnswerOf(line) == Lower(Strip(line))

DeclinedInverted(ans) == ans # << >> /\ ans \in { STR_y, STR_yes }

\* answer and answer not in ("y", "yes")
Declined(ans) == ans # << >> /\ ans \notin { STR_y, STR_yes }

\* the key is missing: the log line and the return
OcrNoKey ==
  /\ pc = "ocr"
  /\ \E e \in KeyEnv :
       /\ KeyMissing(e)
       /\ env_key' = e
       /\ api_key' = Strip(EnvGet(e, << >>))
  /\ ocr' = "skipped"
  /\ pc' = "done"
  /\ UNCHANGED << envVars, fsVars, pdf, artVars, renVars, tty, stdin_line, answer,
                  ocr_files, loopVars, endVars, initVars, estVars >>

OcrDeclineExits ==
  /\ pc = "ocr"
  /\ \E e \in KeyEnv :
       /\ ~KeyMissing(e)
       /\ env_key' = e
       /\ api_key' = Strip(EnvGet(e, << >>))
  /\ \E line \in StdinLines :
       /\ Declined(AnswerOf(line))
       /\ tty' = TRUE
       /\ stdin_line' = line
       /\ answer' = AnswerOf(line)
  /\ ocr' = "cancelled"
  /\ Abort(OSError("cancelled"))
  /\ UNCHANGED << envVars, fsVars, pdf, artVars, renVars, ocr_files, loopVars,
                  initVars, estVars >>

\* a terminal is attached and the operator's answer is not blank, "y" or "yes"
OcrDecline ==
  /\ pc = "ocr"
  /\ \E e \in KeyEnv :
       /\ ~KeyMissing(e)
       /\ env_key' = e
       /\ api_key' = Strip(EnvGet(e, << >>))
  /\ \E line \in StdinLines :
       /\ Declined(AnswerOf(line))
       /\ tty' = TRUE
       /\ stdin_line' = line
       /\ answer' = AnswerOf(line)
  /\ ocr' = "cancelled"
  /\ pc' = "done"
  /\ UNCHANGED << envVars, fsVars, pdf, artVars, renVars, ocr_files, loopVars,
                  endVars, initVars, estVars >>

\* a terminal is attached and input() meets the end of the input: EOFError
OcrEof ==
  /\ pc = "ocr"
  /\ \E e \in KeyEnv :
       /\ ~KeyMissing(e)
       /\ env_key' = e
       /\ api_key' = Strip(EnvGet(e, << >>))
  /\ tty' = TRUE
  /\ ocr' = "eof"
  /\ Abort(OSError("eof"))
  /\ UNCHANGED << envVars, fsVars, pdf, artVars, renVars, stdin_line, answer,
                  ocr_files, loopVars, initVars, estVars >>

OcrProceedAppendsHeader ==
  /\ pc = "ocr"
  /\ \E e \in KeyEnv :
       /\ ~KeyMissing(e)
       /\ env_key' = e
       /\ api_key' = Strip(EnvGet(e, << >>))
  /\ \E t \in BOOLEAN, line \in StdinLines :
       /\ IF t THEN ~Declined(AnswerOf(line)) ELSE line = << >>
       /\ tty' = t
       /\ stdin_line' = line
       /\ answer' = IF t THEN AnswerOf(line) ELSE << >>
  /\ artifactExists' = TRUE
  /\ artifact' = Append(artifact, TitleChunk(filename))
  /\ i' = 1
  /\ attempt' = 0
  /\ ocr' = "running"
  /\ pc' = "page"
  /\ UNCHANGED << envVars, fsVars, pdf, renVars, ocr_files, netCalls, callPage,
                  pageCalls, sleeps, pageRateLimited, lastEx, succeeded, netSleeps,
                  endVars,
                  initVars, estVars >>

\* no terminal, or the answer lets it pass: the header is written with "w"
OcrProceed ==
  /\ pc = "ocr"
  /\ \E e \in KeyEnv :
       /\ ~KeyMissing(e)
       /\ env_key' = e
       /\ api_key' = Strip(EnvGet(e, << >>))
  /\ \E t \in BOOLEAN, line \in StdinLines :
       /\ IF t THEN ~Declined(AnswerOf(line)) ELSE line = << >>
       /\ tty' = t
       /\ stdin_line' = line
       /\ answer' = IF t THEN AnswerOf(line) ELSE << >>
  /\ artifactExists' = TRUE
  /\ artifact' = << TitleChunk(filename) >>
  /\ i' = 1
  /\ attempt' = 0
  /\ ocr' = "running"
  /\ pc' = "page"
  /\ UNCHANGED << envVars, fsVars, pdf, renVars, ocr_files, netCalls, callPage,
                  pageCalls, sleeps, pageRateLimited, lastEx, succeeded, netSleeps,
                  endVars,
                  initVars, estVars >>

RetryableUpTo3(ex, att) == Contains(ex.msg, STR_429) /\ att < 3

RetryableUpTo5(ex, att) == Contains(ex.msg, STR_429) /\ att < 5

RetryableAtAnyAttempt(ex, att) == Contains(ex.msg, STR_429)

\* "429" in str(e) and attempt < 4
Retryable(ex, att) == Contains(ex.msg, STR_429) /\ att < 4

BackoffLinear(att) == 2 * att

BackoffFromTwo(att) == 2 ^ (att + 1)

\* wait = 2 ** attempt
Backoff(att) == 2 ^ att

AppendPageAlwaysDelim(art, p, text) ==
  Append(art, DelimChunk) \o << PageChunk(p, text) >>

\* open(output_path, "a"): the delimiter when i > 1, then the page's section
AppendPage(art, p, text) ==
  (IF p > 1 THEN Append(art, DelimChunk) ELSE art) \o << PageChunk(p, text) >>

\* One call of client.chat.completions.create for page i, answered by ex
\* (NoErr: a response).  The per-page records restart with a page's first call.
CallMade(ex) ==
  /\ netCalls' = netCalls + 1
  /\ callPage' = i
  /\ pageCalls' = (IF attempt = 0 THEN 0 ELSE pageCalls) + 1
  /\ pageRateLimited' = (IF attempt = 0 THEN 0 ELSE pageRateLimited)
                        + (IF ex.rate_limit THEN 1 ELSE 0)
  /\ lastEx' = ex

SleepsOfPage == IF attempt = 0 THEN << >> ELSE sleeps

\* the call returns: break, read the text, append the section, log; then the
\* next page, or the last log line and the return
CallSuccess ==
  /\ pc = "page"
  /\ CallMade(NoErr)
  /\ sleeps' = SleepsOfPage
  /\ netSleeps' = netSleeps
  /\ artifact' = AppendPage(artifact, i, OcrText(dir[ocr_files[i]]))
  /\ succeeded' = succeeded \cup {i}
  /\ attempt' = 0
  /\ IF i = Len(ocr_files)
     THEN /\ i' = i
          /\ ocr' = "completed"
          /\ pc' = "done"
     ELSE /\ i' = i + 1
          /\ ocr' = ocr
          /\ pc' = "page"
  /\ UNCHANGED << envVars, fsVars, pdf, artifactExists, renVars, env_key, api_key,
                  tty, stdin_line, answer, ocr_files, endVars, initVars, estVars >>

\* the call raises and the handler sleeps; the loop goes on to the next
\* attempt, and past range(5) it would leave response as None, which
\* response.choices turns into an AttributeError
CallRetry ==
  /\ pc = "page"
  /\ \E ex \in ApiErrors :
       /\ Retryable(ex, attempt)
       /\ CallMade(ex)
  /\ sleeps' = Append(SleepsOfPage, Backoff(attempt))
  /\ netSleeps' = netSleeps + 1
  /\ IF attempt + 1 < MaxAttempts
     THEN /\ attempt' = attempt + 1
          /\ pc' = "page"
          /\ ocr' = ocr
          /\ UNCHANGED endVars
     ELSE /\ attempt' = attempt
          /\ ocr' = "aborted"
          /\ Abort(OSError("response_none"))
  /\ UNCHANGED << envVars, fsVars, pdf, artVars, renVars, env_key, api_key, tty,
                  stdin_line, answer, ocr_files, i, succeeded, initVars, estVars >>

CallRaiseSkipsPage ==
  /\ pc = "page"
  /\ \E ex \in ApiErrors :
       /\ ~Retryable(ex, attempt)
       /\ CallMade(ex)
  /\ sleeps' = SleepsOfPage
  /\ netSleeps' = netSleeps
  /\ attempt' = 0
  /\ IF i = Len(ocr_files)
     THEN /\ i' = i
          /\ ocr' = "completed"
          /\ pc' = "done"
     ELSE /\ i' = i + 1
          /\ ocr' = ocr
          /\ pc' = "page"
  /\ UNCHANGED << envVars, fsVars, pdf, artVars, renVars, env_key, api_key, tty,
                  stdin_line, answer, ocr_files, succeeded, endVars, initVars,
                  estVars >>

\* the call raises and the handler re-raises
CallRaise ==
  /\ pc = "page"
  /\ \E ex \in ApiErrors :
       /\ ~Retryable(ex, attempt)
       /\ CallMade(ex)
       /\ Abort(ex)
  /\ sleeps' = SleepsOfPage
  /\ netSleeps' = netSleeps
  /\ ocr' = "aborted"
  /\ UNCHANGED << envVars, fsVars, pdf, artVars, renVars, env_key, api_key, tty,
                  stdin_line, answer, ocr_files, i, attempt, succeeded, initVars, estVars >>

\* log("Done.") and the end of main: status 0
MainDone ==
  /\ pc = "done"
  /\ doneLogged' = TRUE
  /\ exitCode' = 0
  /\ pc' = "exit"
  /\ UNCHANGED << envVars, fsVars, pdf, artVars, renVars, ocrVars, loopVars, err,
                  initVars, estVars >>

Next ==
  \/ MainNoFilename
  \/ MainNoImages
  \/ MainOcrMode
  \/ MainFullMode
  \/ StageMove
  \/ StageMoveFail
  \/ FinalMove
  \/ FinalMoveFail
  \/ RenameReturn
  \/ RmdirFail
  \/ CreatePdf
  \/ CreatePdfFail
  \/ OcrNoKey
  \/ OcrDecline
  \/ OcrEof
  \/ OcrProceed
  \/ CallSuccess
  \/ CallRetry
  \/ CallRaise
  \/ MainDone

Spec == Init /\ [][Next]_vars

\* The same program when every call of the service returns (a response or a
\* failure) and every time.sleep ends: a step of the page loop that can be
\* taken is taken.
SpecLive == Spec /\ WF_vars(CallSuccess \/ CallRetry \/ CallRaise)

\* ---------------------------------------------- estimate_tokens on its own

TokensOfNoOverhead(size) == (size * 137) \div 400

\* tokens = int(file_size * 1.37 / 4), and the + 100 of total += tokens + 100.
\* For the sizes of the model the double file_size * 1.37 / 4 truncates to
\* the floor of 137 * file_size / 400.
TokensOf(size) == (size * 137) \div 400 + 100

\* estimate_tokens over the sizes os.path.getsize gives for the files
RECURSIVE estimate_tokens(_)
estimate_tokens(sizes) ==
  IF sizes = << >> THEN 0 ELSE TokensOf(Head(sizes)) + estimate_tokens(Tail(sizes))

\* Every list of up to MaxEstLen file sizes of up to MaxFileSize bytes.
SizeLists == UNION { [1..n -> 0..MaxFileSize] : n \in 0..MaxEstLen }

InitEstimate ==
  /\ pc = "estimate"
  /\ sizesA \in SizeLists
  /\ sizesB \in SizeLists
  /\ estA = 0 /\ estB = 0
  /\ dir = EmptyDir /\ tmp = EmptyDir /\ tmpExists = FALSE
  /\ artifact = << >> /\ artifactExists = FALSE
  /\ dir0 = dir /\ tmp0 = tmp /\ tmpExists0 = tmpExists
  /\ artifact0 = artifact /\ artifactExists0 = artifactExists
  /\ InitRest

\* est_tokens = estimate_tokens(image_files), for each of the two lists
EstimateApply ==
  /\ pc = "estimate"
  /\ estA' = estimate_tokens(sizesA)
  /\ estB' = estimate_tokens(sizesB)
  /\ pc' = "estimated"
  /\ UNCHANGED << envVars, fsVars, pdf, artVars, renVars, ocrVars, loopVars, endVars,
                  initVars, sizesA, sizesB >>

NextEstimate == EstimateApply

SpecEstimate == InitEstimate /\ [][NextEstimate]_vars

\* ------------------------------------------- interleave_reorder on its own

\* Every list of distinct names up to MaxReorderLen long.
ReorderInputs ==
  { s \in UNION { [1..n -> NameUniverse] : n \in 0..MaxReorderLen } :
      \A a, b \in DOMAIN s : a # b => s[a] # s[b] }

InitReorder ==
  /\ pc = "reorder"
  /\ images \in ReorderInputs
  /\ dir = EmptyDir /\ tmp = EmptyDir /\ tmpExists = FALSE
  /\ artifact = << >> /\ artifactExists = FALSE
  /\ dir0 = dir /\ tmp0 = tmp /\ tmpExists0 = tmpExists
  /\ artifact0 = artifact /\ artifactExists0 = artifactExists
  /\ env_filename = Unset /\ filename = << >>
  /\ env_mode = Unset /\ mode = << >>
  /\ pdf = NoPdf
  /\ ordered = << >> /\ new_paths = << >> /\ renamed = << >>
  /\ finalMoves = 0
  /\ env_key = Unset /\ api_key = << >> /\ tty = FALSE /\ stdin_line = << >>
  /\ answer = << >> /\ ocr_files = << >> /\ ocr = "not_run"
  /\ i = 0 /\ attempt = 0 /\ netCalls = 0 /\ callPage = 0 /\ pageCalls = 0
  /\ sleeps = << >> /\ pageRateLimited = 0 /\ lastEx = NoErr
  /\ succeeded = {} /\ netSleeps = 0
  /\ sizesA = << >> /\ sizesB = << >> /\ estA = 0 /\ estB = 0
  /\ err = NoErr /\ exitCode = -1 /\ doneLogged = FALSE

\* ordered = interleave_reorder(images)
ReorderApply ==
  /\ pc = "reorder"
  /\ ordered' = interleave_reorder(images)
  /\ pc' = "reordered"
  /\ UNCHANGED << envVars, fsVars, pdf, artVars, images, new_paths, renamed,
                  finalMoves, ocrVars, loopVars, endVars, initVars, estVars >>

NextReorder == ReorderApply

SpecReorder == InitReorder /\ [][NextReorder]_vars

\* ------------------------------------------------- rename_files on its own

\* The extensions of the already canonical names.
CanonExts == { << ".", "j", "p", "g" >>, << ".", "J", "P", "G" >> }

\* d_001<ext1>, d_002<ext2>, ...: a list that is already canonically named
\* for the base name d.
AlreadyCanonical(exts) ==
  [p \in DOMAIN exts |->
     << "d", "_", "0", "0", << "1", "2", "3", "4", "5", "6", "7", "8", "9" >>[p] >>
       \o exts[p]]

RenameInputs ==
  { AlreadyCanonical(e) : e \in UNION { [1..n -> CanonExts] : n \in 1..MaxFiles } }

\* rename_files(ordered, "d") is about to run over a folder that holds the
\* files of ordered and one more file.
InitRename ==
  /\ pc = "rename"
  /\ ordered \in RenameInputs
  /\ images = ordered
  /\ filename = << "d" >>
  /\ env_filename = SetTo(<< "d" >>)
  /\ dir = DirOf({ ordered[p] : p \in DOMAIN ordered } \cup {Notes})
  /\ \E t \in TmpLeftovers :
       /\ tmp = t
       /\ tmpExists = (t # EmptyDir)
  /\ artifact = << >> /\ artifactExists = FALSE
  /\ dir0 = dir /\ tmp0 = tmp /\ tmpExists0 = tmpExists
  /\ artifact0 = artifact /\ artifactExists0 = artifactExists
  /\ env_mode = Unset /\ mode = STR_full
  /\ pdf = NoPdf
  /\ new_paths = << >> /\ renamed = << >>
  /\ finalMoves = 0
  /\ env_key = Unset /\ api_key = << >> /\ tty = FALSE /\ stdin_line = << >>
  /\ answer = << >> /\ ocr_files = << >> /\ ocr = "not_run"
  /\ i = 0 /\ attempt = 0 /\ netCalls = 0 /\ callPage = 0 /\ pageCalls = 0
  /\ sleeps = << >> /\ pageRateLimited = 0 /\ lastEx = NoErr
  /\ succeeded = {} /\ netSleeps = 0
  /\ err = NoErr /\ exitCode = -1 /\ doneLogged = FALSE
  /\ InitEst

\* os.makedirs(tmp_dir, exist_ok=True) and new_paths = []
RenameEnter ==
  /\ pc = "rename"
  /\ tmpExists' = TRUE
  /\ new_paths' = << >>
  /\ pc' = "stage"
  /\ UNCHANGED << envVars, dir, tmp, pdf, artVars, images, ordered, renamed,
                  finalMoves, ocrVars, loopVars, endVars, initVars, estVars >>

NextRename ==
  \/ RenameEnter
  \/ StageMove
  \/ StageMoveFail
  \/ FinalMove
  \/ FinalMoveFail
  \/ RenameReturn
  \/ RmdirFail

SpecRename == InitRename /\ [][NextRename]_vars

\* ------------------------------------------------------------------ claims

\* How often x occurs in the list s.
Count(s, x) == Cardinality({ k \in DOMAIN s : s[k] = x })

\* The digit characters 1..9.
DecimalDigit == << "1", "2", "3", "4", "5", "6", "7", "8", "9" >>

RECURSIVE SumSeq(_)
SumSeq(s) == IF s = << >> THEN 0 ELSE Head(s) + SumSeq(Tail(s))

\* C1: interleave_reorder of a list of N distinct names returns exactly N
\* names, and every name occurs in the output as often as in the input
\* (once if it is an input name, never otherwise), for N even or odd.
C1_ReorderIsPermutation ==
  pc = "reordered" =>
    /\ Len(ordered) = Len(images)
    /\ \A x \in NameUniverse : Count(ordered, x) = Count(images, x)

\* An odd-length input whose order the function changes.
C1_Witness ==
  /\ pc = "reordered"
  /\ Len(images) = 5
  /\ ordered # images
  /\ \A x \in NameUniverse : Count(ordered, x) = Count(images, x)

\* C2: with mid = ceil(N/2), files[i] lands at output position 2i for every
\* i in 0..mid-1 and files[N-1-i] at position 2i+1 whenever 2i+1 < N; a
\* front has no back after it only when N is odd and it is the last front;
\* the 6-item, the 5-item and the single-item example come out as stated.
\* (Positions in the formula are 1-based.)
C2_ReorderPositions ==
  pc = "reordered" =>
    LET N == Len(images)
        mid == (N + 1) \div 2
        f1 == HiddenPng  f2 == D1  f3 == D2  b3 == Notes  b2 == S1  b1 == S2
    IN /\ Len(ordered) = N
       /\ \A k \in 0..(mid - 1) : ordered[2 * k + 1] = images[k + 1]
       /\ \A k \in 0..(N - 1) : 2 * k + 1 < N => ordered[2 * k + 2] = images[N - k]
       /\ \A k \in 0..(mid - 1) : ~(2 * k + 1 < N) => (N % 2 = 1 /\ k = mid - 1)
       /\ images = << f1, f2, f3, b3, b2, b1 >> => ordered = << f1, b1, f2, b2, f3, b3 >>
       /\ images = << f1, f2, f3, b3, b2 >> => ordered = << f1, b2, f2, b3, f3 >>
       /\ Len(images) = 1 => ordered = images

\* The 6-item example has been reordered.
C2_Witness ==
  /\ pc = "reordered"
  /\ images = << HiddenPng, D1, D2, Notes, S1, S2 >>
  /\ ordered = << HiddenPng, S2, D1, S1, D2, Notes >>

\* C3: a page gets at most 5 calls, counted from 1 at each page; while every
\* call for the page has been answered by a rate-limit failure the loop is
\* still retrying that page below 5 calls, and at the 5th the run has ended
\* with status 1 on that rate-limit failure, the page and every later page
\* without a section and without a call.
C3_FiveAttemptsPerPage ==
  /\ pageCalls <= 5
  /\ (callPage >= 1 /\ pageRateLimited = pageCalls) =>
       IF pageCalls < 5
       THEN /\ pc = "page"
            /\ i = callPage
            /\ attempt = pageCalls
       ELSE /\ pc = "exit"
            /\ exitCode = 1
            /\ err = RateLimitError
            /\ lastEx = RateLimitError
            /\ i = callPage
            /\ succeeded = 1..(callPage - 1)
            /\ \A c \in DOMAIN artifact : artifact[c].page < callPage

\* The second page of three was rate-limited five times after the first
\* page took three calls.
C3_Witness ==
  /\ pc = "exit"
  /\ callPage = 2
  /\ Len(ocr_files) = 3
  /\ pageCalls = 5
  /\ pageRateLimited = 5
  /\ netCalls = 8
  /\ err = RateLimitError

\* C4: a call that succeeds as the k-th call of its page (1 <= k <= 5) comes
\* after the waits 1, 2, 4, ... 2^(k-2) slept for that page, in that order,
\* 2^(k-1) - 1 in all (1, 2, 4, 8, total 15, for k = 5), and its page's text
\* is the section appended last.
C4_BackoffBeforeSuccess ==
  (callPage >= 1 /\ lastEx = NoErr) =>
    /\ pageCalls \in 1..5
    /\ sleeps = SubSeq(<< 1, 2, 4, 8 >>, 1, pageCalls - 1)
    /\ SumSeq(sleeps) = 2 ^ (pageCalls - 1) - 1
    /\ callPage \in succeeded
    /\ artifact[Len(artifact)].kind = "page"
    /\ artifact[Len(artifact)].page = callPage

\* Four rate-limit failures, then the fifth call of the page succeeded.
C4_Witness ==
  /\ callPage >= 1
  /\ lastEx = NoErr
  /\ pageCalls = 5
  /\ pageRateLimited = 4
  /\ sleeps = << 1, 2, 4, 8 >>
  /\ SumSeq(sleeps) = 15
  /\ callPage \in succeeded

\* C5: a failure of a call that is not the service's rate-limit failure ends
\* the run at once: that failure propagates with status 1, no wait is slept
\* for the call, nothing is appended for its page, and (the run being over)
\* no later call is made; at any attempt index.
C5_OtherFailureNeverRetried ==
  (lastEx.kind = "api" /\ ~lastEx.rate_limit) =>
    /\ pc = "exit"
    /\ exitCode = 1
    /\ err = lastEx
    /\ Len(sleeps) = pageCalls - 1
    /\ callPage \notin succeeded

\* The artifact of a run for which pages 1..k have succeeded: the title line,
\* then the labelled sections in page order, the delimiter between two.
RECURSIVE ExpectedSections(_)
ExpectedSections(k) ==
  IF k = 0 THEN << >>
  ELSE ExpectedSections(k - 1)
       \o (IF k = 1 THEN << >> ELSE << [kind |-> "delim", page |-> 0, text |-> << >>] >>)
       \o << [kind |-> "page", page |-> k,
              text |-> << "t", ":" >> \o dir[ocr_files[k]]] >>

ExpectedArtifact(k) ==
  << [kind |-> "title", page |-> 0, text |-> filename] >> \o ExpectedSections(k)

\* C6: from the writing of the header on, the artifact is the title line of
\* the base name followed by exactly the sections of pages 1..k in
\* increasing order, k being the number of pages that have succeeded, with
\* the delimiter only between consecutive sections; so a run that failed on
\* page i holds the sections of pages 1..i-1 and none of pages i..N.
C6_ArtifactIsPrefixOfPages ==
  ocr \in { "running", "completed", "aborted" } =>
    LET k == Cardinality(succeeded) IN
    /\ succeeded = 1..k
    /\ k <= Len(ocr_files)
    /\ artifactExists
    /\ artifact = ExpectedArtifact(k)
    /\ (pc = "exit" /\ err.kind = "api") => (k = i - 1 /\ callPage = i)
    /\ ocr = "completed" => k = Len(ocr_files)

\* Three pages, a fatal failure on page 2: page 1's section is in the
\* artifact and nothing of pages 2 and 3.
C6_Witness ==
  /\ pc = "exit"
  /\ err.kind = "api"
  /\ Len(ocr_files) = 3
  /\ i = 2
  /\ Len(artifact) = 2
  /\ artifact[2].kind = "page"
  /\ artifact[2].page = 1
  /\ artifactExists0

\* The credential is unset, empty or only blanks.
BlankEnv(e) == ~e.set \/ \A k \in DOMAIN e.val : e.val[k] = " "

\* C7: once run_ocr has read a credential that is unset, empty or blank, no
\* call has been made, the artifact is as it was before the run (absent or
\* with its old content), the extraction was skipped, and the run ends with
\* the completion line and status 0; in ocr mode and in the full pipeline.
C7_NoCredentialSkipsAndSucceeds ==
  (ocr # "not_run" /\ BlankEnv(env_key)) =>
    /\ ocr = "skipped"
    /\ netCalls = 0
    /\ artifact = artifact0
    /\ artifactExists = artifactExists0
    /\ err = NoErr
    /\ pc \in { "done", "exit" }
    /\ pc = "exit" => (exitCode = 0 /\ doneLogged)

\* A full-pipeline run with a blank credential has exited with status 0,
\* the old artifact still in place.
C7_Witness ==
  /\ pc = "exit"
  /\ ocr = "skipped"
  /\ env_key = SetTo(<< " " >>)
  /\ mode = STR_full
  /\ pdf.exists
  /\ exitCode = 0
  /\ doneLogged
  /\ artifactExists0
  /\ artifact = artifact0

\* C8: when FILENAME is missing, empty or blank, or the folder holds no
\* image, the run has ended with status 1 and nothing has happened: the
\* folder and the staging directory are as they were, no assembled document
\* and no artifact was written, no call was made; whatever MODE says.
C8_FatalPreconditionsBeforeSideEffects ==
  (pc # "main" /\ pc # "reorder" /\ pc # "reordered"
     /\ (BlankEnv(env_filename) \/ (DOMAIN dir0) \cap ImageUniverse = {})) =>
    /\ pc = "exit"
    /\ exitCode = 1
    /\ ~doneLogged
    /\ dir = dir0
    /\ tmp = tmp0
    /\ tmpExists = tmpExists0
    /\ pdf = NoPdf
    /\ artifact = artifact0
    /\ artifactExists = artifactExists0
    /\ netCalls = 0
    /\ ocr = "not_run"

\* A run with a base name over a folder without images has ended.
C8_Witness ==
  /\ pc = "exit"
  /\ exitCode = 1
  /\ err.kind = "noinput"
  /\ filename # << >>
  /\ (DOMAIN dir0) \cap ImageUniverse = {}
  /\ dir = dir0

\* C9: once rename_files has returned, the file that was at position p of
\* the ordered list is stored under {base}_{p:03d}{ext}, ext being its own
\* extension unchanged; the returned names are those names, in position
\* order and pairwise distinct; every other file of the folder is as it
\* was; and the staging directory is gone.  (The model's lists are shorter
\* than 10, so the padded index is two zeros and a digit.)
C9_RenameStoresEachFileUnderItsCanonicalName ==
  renamed # << >> =>
    LET N == Len(ordered) IN
    /\ Len(renamed) = N
    /\ \A p \in 1..N :
         LET ext == splitext(ordered[p])[2] IN
         /\ EndsWith(ordered[p], ext)
         /\ renamed[p] = filename \o << "_", "0", "0", DecimalDigit[p] >> \o ext
         /\ renamed[p] \in DOMAIN dir
         /\ dir[renamed[p]] = dir0[ordered[p]]
    /\ \A p, q \in 1..N : p # q => renamed[p] # renamed[q]
    /\ \A p, q \in 1..N : p < q => StrLess(renamed[p], renamed[q])
    /\ DOMAIN dir = ((DOMAIN dir0) \ { ordered[p] : p \in 1..N })
                      \cup { renamed[p] : p \in 1..N }
    /\ \A n \in (DOMAIN dir0) \ { ordered[p] : p \in 1..N } : dir[n] = dir0[n]
    /\ ~tmpExists
    /\ tmp = EmptyDir

\* A rename in which a canonical name is the original name of another file.
C9_Witness ==
  /\ renamed # << >>
  /\ Len(renamed) = 3
  /\ \E p, q \in 1..3 : p # q /\ renamed[p] = ordered[q]
  /\ \A p \in 1..3 : dir[renamed[p]] = dir0[ordered[p]]
  /\ ~tmpExists

\* C10: no final move happens before every file is staged; and when the
\* staging move of position j fails, the run ends on that failure with
\* nothing returned and no final move made, positions 1..j-1 sit in the
\* staging directory under their canonical names, positions j..N sit in the
\* folder under their original names, and the staging directory, with what
\* it held before, is still there.
C10_StagingFailureLeavesStagingInPlace ==
  /\ finalMoves > 0 => Len(new_paths) = Len(ordered)
  /\ err.kind = "stage_move" =>
       LET N == Len(ordered)
           j == Len(new_paths) + 1
       IN /\ pc = "exit"
          /\ exitCode = 1
          /\ renamed = << >>
          /\ finalMoves = 0
          /\ j <= N
          /\ tmpExists
          /\ \A p \in 1..(j - 1) :
               /\ new_paths[p] = filename \o << "_", "0", "0", DecimalDigit[p] >>
                                   \o splitext(ordered[p])[2]
               /\ new_paths[p] \in DOMAIN tmp
               /\ tmp[new_paths[p]] = dir0[ordered[p]]
               /\ ordered[p] \notin DOMAIN dir
          /\ \A p \in j..N :
               /\ ordered[p] \in DOMAIN dir
               /\ dir[ordered[p]] = dir0[ordered[p]]
          /\ \A n \in DOMAIN tmp0 : n \in DOMAIN tmp
          /\ pdf = NoPdf
          /\ ocr = "not_run"

\* The third staging move of three failed.
C10_Witness ==
  /\ err.kind = "stage_move"
  /\ Len(ordered) = 3
  /\ Len(new_paths) = 2
  /\ tmpExists
  /\ \A p \in 1..2 : new_paths[p] \in DOMAIN tmp
  /\ ordered[3] \in DOMAIN dir

\* What the operator typed, stripped and lowered.
TypedAnswer == Lower(Strip(stdin_line))

\* The header has been written: the extraction went past the gate.
PastGate == ocr \in { "running", "completed", "aborted" }

\* C11 as stated: in an attended run with a credential the extraction goes
\* past the gate only on an explicit y or yes; every other answer, the empty
\* one included, leaves the artifact alone and makes no call.
C11_OnlyExplicitYesProceeds ==
  /\ (tty /\ PastGate) => TypedAnswer \in { << "y" >>, << "y", "e", "s" >> }
  /\ (tty /\ ocr # "not_run"
        /\ TypedAnswer \notin { << "y" >>, << "y", "e", "s" >> }) =>
       (netCalls = 0 /\ artifact = artifact0 /\ artifactExists = artifactExists0)

\* C11, amended: in an attended run with a credential the extraction goes
\* past the gate only when the answer, stripped and lowered, is y, yes or
\* empty (the prompt's default); after any other answer, or when the input
\* ends, no call is made and the artifact is as it was.
C11_YesOrBlankProceeds ==
  /\ (tty /\ PastGate) =>
       /\ TypedAnswer \in { << >>, << "y" >>, << "y", "e", "s" >> }
       /\ api_key # << >>
  /\ (tty /\ ocr # "not_run"
        /\ TypedAnswer \notin { << >>, << "y" >>, << "y", "e", "s" >> }) =>
       (netCalls = 0 /\ artifact = artifact0 /\ artifactExists = artifactExists0)
  /\ ocr = "eof" =>
       (netCalls = 0 /\ artifact = artifact0 /\ artifactExists = artifactExists0)

\* An attended run whose operator only pressed return has extracted a page.
C11_Witness ==
  /\ tty
  /\ stdin_line = << >>
  /\ PastGate
  /\ netCalls > 0
  /\ succeeded # {}
  /\ artifact # artifact0

\* C12: after an answer that declines, the extraction alone is cancelled:
\* no call, the artifact as it was, no error, and the run ends with the
\* completion line and status 0; in the full pipeline the renamed files and
\* the assembled document are in place, in ocr mode the folder is untouched.
C12_DeclineCancelsExtractionOnly ==
  (tty /\ ocr # "not_run"
     /\ TypedAnswer \notin { << >>, << "y" >>, << "y", "e", "s" >> }) =>
    /\ ocr = "cancelled"
    /\ netCalls = 0
    /\ artifact = artifact0
    /\ artifactExists = artifactExists0
    /\ err = NoErr
    /\ pc \in { "done", "exit" }
    /\ pc = "exit" => (exitCode = 0 /\ doneLogged)
    /\ IF mode = << "o", "c", "r" >>
       THEN dir = dir0 /\ pdf = NoPdf /\ tmp = tmp0 /\ tmpExists = tmpExists0
       ELSE /\ renamed # << >>
            /\ Len(renamed) = Len(ordered)
            /\ \A p \in DOMAIN renamed :
                 renamed[p] \in DOMAIN dir /\ dir[renamed[p]] = dir0[ordered[p]]
            /\ ~tmpExists
            /\ pdf.exists
            /\ pdf.pages = [p \in DOMAIN ordered |-> dir0[ordered[p]]]

\* A full-pipeline run whose operator answered n has exited with status 0.
C12_Witness ==
  /\ pc = "exit"
  /\ tty
  /\ stdin_line = << "n" >>
  /\ ocr = "cancelled"
  /\ mode # << "o", "c", "r" >>
  /\ pdf.exists
  /\ Len(renamed) = 3
  /\ exitCode = 0
  /\ doneLogged
  /\ artifactExists0
  /\ artifact = artifact0

\* C13: main has two behaviours.  With MODE ocr the extraction runs over the
\* sorted listing and nothing else happens: no reorder, no rename, no
\* staging directory, no assembled document.  With any other MODE the sorted
\* listing is interleaved, then renamed, then assembled, then extracted:
\* the renamed list is the canonical names in interleaved order, the
\* document is written only after the rename has returned and holds the
\* pages in that order, and the extraction starts only after the document
\* is complete and runs over the renamed list.
C13_TwoPipelines ==
  images # << >> =>
    LET N == Len(images)
        mid == (N + 1) \div 2
        pages == [p \in 1..N |-> dir0[ordered[p]]]
    IN /\ { images[p] : p \in 1..N } = (DOMAIN dir0) \cap ImageUniverse
       /\ \A p, q \in 1..N : p < q => StrLess(images[p], images[q])
       /\ IF mode = << "o", "c", "r" >>
          THEN /\ ordered = << >> /\ new_paths = << >> /\ renamed = << >>
               /\ dir = dir0 /\ tmp = tmp0 /\ tmpExists = tmpExists0
               /\ pdf = NoPdf
               /\ ocr_files = images
          ELSE /\ Len(ordered) = N
               /\ \A k \in 0..(mid - 1) : ordered[2 * k + 1] = images[k + 1]
               /\ \A k \in 0..(N - 1) :
                    2 * k + 1 < N => ordered[2 * k + 2] = images[N - k]
               /\ renamed # << >> =>
                    /\ Len(renamed) = N
                    /\ \A p \in 1..N :
                         /\ renamed[p] = filename \o << "_", "0", "0", DecimalDigit[p] >>
                                           \o splitext(ordered[p])[2]
                         /\ dir[renamed[p]] = dir0[ordered[p]]
               /\ pdf.exists => renamed # << >>
               /\ (pdf.exists /\ err.kind # "img2pdf") => pdf.pages = pages
               /\ ocr_files # << >> => (ocr_files = renamed /\ pdf.pages = pages)
               /\ ocr # "not_run" => (ocr_files = renamed /\ pdf.pages = pages)
               /\ netCalls > 0 => (ocr_files = renamed /\ pdf.pages = pages)

\* A run under a MODE that is neither ocr nor full has gone through the
\* whole pipeline over three files, whose order the interleaving changed.
C13_Witness ==
  /\ pc = "exit"
  /\ mode = << "p", "d", "f" >>
  /\ Len(images) = 3
  /\ ordered # images
  /\ ocr = "completed"
  /\ pdf.pages = [p \in 1..3 |-> dir0[ordered[p]]]
  /\ ocr_files = renamed

\* C14 as stated: for non-empty lists A and B with total(A) <= total(B) the
\* estimate of A is at most the estimate of B, and the estimate of a
\* non-empty list is positive.
C14_MonotoneInTotalSize ==
  pc = "estimated" =>
    /\ (sizesA # << >> /\ sizesB # << >> /\ SumSeq(sizesA) <= SumSeq(sizesB)) =>
         estA <= estB
    /\ sizesA # << >> => estA > 0

\* C14, amended: the estimate is non-decreasing in each file's size: for
\* lists A and B of the same length with size(A[k]) <= size(B[k]) for every
\* k, the estimate of A is at most the estimate of B; and the estimate of a
\* non-empty list is positive, at least 100 per file, zero-byte files included.
C14_MonotoneInEachFileSize ==
  pc = "estimated" =>
    /\ (Len(sizesA) = Len(sizesB) /\ \A k \in DOMAIN sizesA : sizesA[k] <= sizesB[k]) =>
         estA <= estB
    /\ sizesA # << >> => (estA > 0 /\ estA >= 100 * Len(sizesA))

\* Two zero-byte files against a list that is larger in one file.
C14_Witness ==
  /\ pc = "estimated"
  /\ sizesA = << 0, 0 >>
  /\ sizesB = << 3, 0 >>
  /\ estA = 200
  /\ estB = 201

\* C15: rename_files with base name d over a list that is already named
\* d_001.., in that order, returns the same names, and every file of the
\* folder is stored under the name and with the content it had before; the
\* staging directory is gone.
C15_RenameIsIdempotentOnCanonicalNames ==
  renamed # << >> =>
    /\ renamed = ordered
    /\ dir = dir0
    /\ \A p \in DOMAIN ordered : dir[ordered[p]] = << "c", ":" >> \o ordered[p]
    /\ ~tmpExists
    /\ tmp = EmptyDir

\* Three canonical files, one with an upper-case extension, renamed again
\* through a staging directory that an earlier run had left behind.
C15_Witness ==
  /\ pc = "pdf"
  /\ Len(renamed) = 3
  /\ renamed = ordered
  /\ \E p \in 1..3 : EndsWith(ordered[p], << ".", "J", "P", "G" >>)
  /\ tmpExists0
  /\ dir = dir0
  /\ ~tmpExists

\* C16: every step that issues a call issues exactly one, for a page that is
\* not before the page of the call before it and at most one page after it,
\* and at that moment every earlier page has succeeded and has its section
\* in the artifact.
C16_CallsInPageOrder ==
  [][netCalls' # netCalls =>
       /\ netCalls' = netCalls + 1
       /\ callPage' \in 1..Len(ocr_files)
       /\ callPage' >= callPage
       /\ callPage' <= callPage + 1
       /\ \A p \in 1..(callPage' - 1) :
            /\ p \in succeeded
            /\ \E c \in DOMAIN artifact :
                 artifact[c].kind = "page" /\ artifact[c].page = p]_vars

\* The third page is being retried after pages 1 and 2 succeeded.
C16_Witness ==
  /\ pc = "page"
  /\ callPage = 3
  /\ pageCalls = 2
  /\ succeeded = { 1, 2 }
  /\ netCalls >= 4

\* C17 as stated: the wait 2^(k-1) follows the k-th rate-limited attempt of a
\* page for every k in 1..5, so that 1, 2, 4, 8, 16 are slept.
C17_WaitAfterEveryRateLimitedAttempt ==
  (callPage >= 1 /\ lastEx.rate_limit) =>
    /\ Len(sleeps) = pageCalls
    /\ sleeps[pageCalls] = 2 ^ (pageCalls - 1)

\* C17: the wait that follows the k-th attempt of a page, when that attempt
\* is rate-limited, is 2^(k-1) for k in 1..4 (1, 2, 4, 8 in that order, the
\* attempts before it having been waited for likewise); the 5th attempt, when
\* rate-limited, is followed by no wait: its failure ends the run, and 16 is
\* never slept.
C17_WaitAfterFirstFourAttemptsOnly ==
  (callPage >= 1 /\ lastEx.rate_limit) =>
    /\ pageCalls \in 1..5
    /\ pageCalls <= 4 =>
         /\ sleeps = SubSeq(<< 1, 2, 4, 8 >>, 1, pageCalls)
         /\ sleeps[pageCalls] = 2 ^ (pageCalls - 1)
         /\ pc = "page"
    /\ pageCalls = 5 =>
         /\ sleeps = << 1, 2, 4, 8 >>
         /\ pc = "exit"
         /\ ocr = "aborted"
         /\ err = lastEx

\* All five attempts of a page were rate-limited: four waits, then the end.
C17_Witness ==
  /\ callPage >= 1
  /\ lastEx.rate_limit
  /\ pageCalls = 5
  /\ pageRateLimited = 5
  /\ sleeps = << 1, 2, 4, 8 >>
  /\ pc = "exit"

\* C18: every page section in the artifact holds the text extracted from the
\* image of its own page, by a call made for that page that succeeded; no
\* page has two sections; the reading of response.choices is never reached
\* with response still None; and a retry loop left without a success has
\* ended the run.
C18_SectionsOnlyFromOwnSuccessfulCall ==
  /\ err.kind # "response_none"
  /\ PastGate =>
       /\ \A c \in DOMAIN artifact :
            artifact[c].kind = "page" =>
              /\ artifact[c].page \in 1..Len(ocr_files)
              /\ artifact[c].page \in succeeded
              /\ artifact[c].page <= callPage
              /\ artifact[c].text = << "t", ":" >> \o dir[ocr_files[artifact[c].page]]
       /\ \A c, d \in DOMAIN artifact :
            (/\ artifact[c].kind = "page"
             /\ artifact[d].kind = "page"
             /\ artifact[c].page = artifact[d].page) => c = d
       /\ \A p \in succeeded :
            \E c \in DOMAIN artifact :
              artifact[c].kind = "page" /\ artifact[c].page = p
       /\ (callPage >= 1 /\ lastEx # NoErr /\ pc # "page") =>
            /\ ocr = "aborted"
            /\ pc = "exit"
            /\ err = lastEx
            /\ callPage \notin succeeded

\* Three pages were appended, one of them after a failed attempt, and the
\* run completed.
C18_Witness ==
  /\ ocr = "completed"
  /\ Len(ocr_files) = 3
  /\ succeeded = { 1, 2, 3 }
  /\ netCalls > 3
  /\ Cardinality({ c \in DOMAIN artifact : artifact[c].kind = "page" }) = 3

\* C19: from the passing of the gate on, the artifact exists, begins with
\* the title header of this run and holds nothing of an earlier run; as long
\* as no call was issued, and still when no page has succeeded (page 1
\* failed fatally), it is the title header alone.  When the credentials are
\* missing or the operator declined, the artifact is as it was before the
\* run: same existence, same content.
C19_HeaderReplacesArtifactOnlyPastGate ==
  /\ PastGate =>
       /\ artifactExists
       /\ Len(artifact) >= 1
       /\ artifact[1] = [kind |-> "title", page |-> 0, text |-> filename]
       /\ \A c \in DOMAIN artifact : artifact[c].kind # "stale"
       /\ (netCalls = 0 \/ succeeded = { }) =>
            artifact = << [kind |-> "title", page |-> 0, text |-> filename] >>
  /\ ocr \in { "skipped", "cancelled" } =>
       /\ artifact = artifact0
       /\ artifactExists = artifactExists0

\* An artifact of an earlier run existed, the gate was passed, and the first
\* call for page 1 failed fatally: only the title header is left.
C19_Witness ==
  /\ artifactExists0
  /\ \E c \in DOMAIN artifact0 : artifact0[c].kind = "stale"
  /\ ocr = "aborted"
  /\ pc = "exit"
  /\ netCalls = 1
  /\ callPage = 1
  /\ succeeded = { }
  /\ artifact = << [kind |-> "title", page |-> 0, text |-> filename] >>

\* C20: when every call returns and every sleep ends, an extraction that has
\* begun over N pages always comes to its end, either completed with the N
\* sections appended or aborted, and at no moment have more than 5*N calls
\* been issued or more than 4*N sleeps been slept.
C20_ExtractionTerminatesWithinBounds ==
  /\ [](/\ netCalls <= 5 * Len(ocr_files)
        /\ netSleeps <= 4 * Len(ocr_files))
  /\ (ocr = "running") ~>
       \/ /\ ocr = "completed"
          /\ Cardinality({ c \in DOMAIN artifact : artifact[c].kind = "page" })
               = Len(ocr_files)
       \/ ocr = "aborted"

\* Every page of three needed all five attempts: 15 calls, 12 sleeps, and the
\* extraction completed.
C20_Witness ==
  /\ ocr = "completed"
  /\ Len(ocr_files) = 3
  /\ netCalls = 15
  /\ netSleeps = 12

====
